---- MODULE Spec2Model ----
(***************************************************************************)
(* Model of psql_helper.PostgreSQL: the connection pool (_connect,         *)
(* teardown), the per-request accessor (connection) and commit.            *)
(*                                                                         *)
(* The accessor caches the connection on the application object            *)
(* (self.app._postgresql, one slot shared by every request thread), while  *)
(* teardown looks for it on the request context (flask.g._postgresql, one  *)
(* slot per request context).  Both slots are modelled.                    *)
(*                                                                         *)
(* Everything _connect does happens inside "with self._lock", and so does  *)
(* everything teardown does to the pool, so each critical section is one   *)
(* atomic action.  What is not under the lock is a step of its own: the    *)
(* accessor's test, call, store and return, teardown's removal of the      *)
(* connection from flask.g, and the statement the storage helper runs      *)
(* after the accessor returned.                                            *)
(***************************************************************************)
EXTENDS Integers, Sequences, FiniteSets, TLC

\* ---- bounds ----
NReq == 3          \* request contexts (threads)
MaxConns == 4      \* connections the driver may create in one run
MaxCalls == 3      \* uses of the connection property in one run

\* ---- program constant ----
pool_size == 2     \* PostgreSQL.__init__(app=None, pool_size=2)

Req == 1..NReq
Conn == 1..MaxConns
None == 0          \* attribute absent / c = None

\* how one driver call ends: normally, with psycopg2.OperationalError, or
\* with an exception of any other class
Outcome == {"ok", "OperationalError", "Error"}

VARIABLES
    pool,             \* self._pool, a list used as a stack (top = last)
    app_postgresql,   \* self.app._postgresql, None when the attribute is absent
    g_postgresql,     \* flask.g._postgresql of each request context
    status,           \* each connection: "unborn", "open" or "closed"
    nextId,           \* the next connection psycopg2.connect() creates
    pc,               \* where each request thread is inside the connection property
    tmp,              \* value returned by _connect(), not yet stored
    held,             \* what the connection property last returned to the request
    calls,            \* uses of the connection property by the request
    acquires,         \* _connect() invocations made for the request
    tdCount,          \* 1 once teardown has been called on the request
                      \* context and ended it, 0 before; later calls on the
                      \* ended context find nothing and are not counted
    last,             \* the latest operation and the state it started from
    dirty,            \* connections with a transaction pending
    inExec,           \* requests inside DBStorageService.__execute_sql
    lock,             \* the thread that holds self._lock, None when it is free
    lpc,              \* where each thread is inside _connect or teardown
    lc,               \* the local variable c of each thread
    li                \* teardown's local s; in _connect the position of the
                      \* loop "for c in self._pool"

lockVars == <<lock, lpc, lc, li>>

vars == <<pool, app_postgresql, g_postgresql, status, nextId, pc, tmp, held,
          calls, acquires, tdCount, last, dirty, inExec, lock, lpc, lc, li>>

NoErr == [src |-> "none", class |-> "ok"]
Err(s, k) == [src |-> s, class |-> k]

Range(s) == {s[i] : i \in 1..Len(s)}

RECURSIVE SumTo(_, _)
SumTo(f, n) == IF n = 0 THEN 0 ELSE f[n] + SumTo(f, n - 1)
Total(f) == SumTo(f, NReq)
Front(s) == SubSeq(s, 1, Len(s) - 1)
Top(s) == s[Len(s)]

----------------------------------------------------------------------------
\* _connect, lines 72-85: the popped connection c failed reset() with
\* OperationalError.  close() is called on c and then on each pooled
\* connection in list order; OperationalError is swallowed, any other class
\* propagates at once and leaves the rest untouched and the list uncleared.
\* closeOut[i] is the outcome of the i-th close() call.
FirstError(n, closeOut) ==
    LET bad == {i \in 1..n : closeOut[i] = "Error"}
    IN  IF bad = {} THEN n + 1
        ELSE CHOOSE i \in bad : \A j \in bad : i <= j

\* variant: the list is not cleared after the connections were closed
Invalidate_NoClear(rest, st, c, closeOut) ==
    LET cs == <<c>> \o rest
        k  == FirstError(Len(cs), closeOut)
        st2 == [x \in Conn |->
                  IF \E i \in 1..Len(cs) : i <= k /\ cs[i] = x
                  THEN "closed" ELSE st[x]]
    IN  IF k <= Len(cs)
        THEN [pool |-> rest, status |-> st2, err |-> Err("close", "Error"), c |-> c]
        ELSE [pool |-> rest, status |-> st2, err |-> NoErr, c |-> None]

Invalidate(rest, st, c, closeOut) ==
    LET cs == <<c>> \o rest
        k  == FirstError(Len(cs), closeOut)
        st2 == [x \in Conn |->
                  IF \E i \in 1..Len(cs) : i <= k /\ cs[i] = x
                  THEN "closed" ELSE st[x]]
    IN  IF k <= Len(cs)
        THEN [pool |-> rest, status |-> st2, err |-> Err("close", "Error"), c |-> c]
        ELSE [pool |-> <<>>, status |-> st2, err |-> NoErr, c |-> None]

\* variant: a bare except, every failure of reset() counts as a dead pool
PopAndCheck_BareExcept(p, st, resetOut, closeOut) ==
    IF Len(p) > 0
    THEN LET c == Top(p)
             rest == Front(p)
         IN  IF resetOut = "ok"
             THEN [pool |-> rest, status |-> st, err |-> NoErr, c |-> c]
             ELSE Invalidate(rest, st, c,
                             IF resetOut = "OperationalError" THEN closeOut
                             ELSE [i \in 1..Len(p) |-> "ok"])
    ELSE [pool |-> p, status |-> st, err |-> NoErr, c |-> None]

\* variant: the oldest connection is taken, self._pool.pop(0)
PopAndCheck_Fifo(p, st, resetOut, closeOut) ==
    IF Len(p) > 0
    THEN LET c == Head(p)
             rest == Tail(p)
         IN  CASE resetOut = "ok" ->
                    [pool |-> rest, status |-> st, err |-> NoErr, c |-> c]
               [] resetOut = "OperationalError" ->
                    Invalidate(rest, st, c, closeOut)
               [] OTHER ->
                    [pool |-> rest, status |-> st, err |-> Err("reset", "Error"), c |-> c]
    ELSE [pool |-> p, status |-> st, err |-> NoErr, c |-> None]

\* _connect, lines 64-87
PopAndCheck(p, st, resetOut, closeOut) ==
    IF Len(p) > 0
    THEN LET c == Top(p)
             rest == Front(p)
         IN  CASE resetOut = "ok" ->
                    [pool |-> rest, status |-> st, err |-> NoErr, c |-> c]
               [] resetOut = "OperationalError" ->
                    Invalidate(rest, st, c, closeOut)
               [] OTHER ->
                    [pool |-> rest, status |-> st, err |-> Err("reset", "Error"), c |-> c]
    ELSE [pool |-> p, status |-> st, err |-> NoErr, c |-> None]

\* _new_connection, lines 94-103: psycopg2.connect() returns a connection
\* that did not exist before, or raises
NewConnection(st, nid, newOut) ==
    IF newOut = "ok"
    THEN [status |-> [st EXCEPT ![nid] = "open"], nextId |-> nid + 1,
          err |-> NoErr, c |-> nid]
    ELSE [status |-> st, nextId |-> nid, err |-> Err("connect", newOut), c |-> None]

\* variant: "if c is None" is missing, nothing is created
ConnectResult_NoCreate(p, st, nid, resetOut, closeOut, newOut) ==
    LET a == PopAndCheck(p, st, resetOut, closeOut)
    IN  IF a.err # NoErr
        THEN [pool |-> a.pool, status |-> a.status, nextId |-> nid,
              err |-> a.err, c |-> None]
        ELSE [pool |-> a.pool, status |-> a.status, nextId |-> nid,
              err |-> NoErr, c |-> a.c]

\* _connect, lines 58-92, the whole critical section
ConnectResult(p, st, nid, resetOut, closeOut, newOut) ==
    LET a == PopAndCheck(p, st, resetOut, closeOut)
    IN  IF a.err # NoErr
        THEN [pool |-> a.pool, status |-> a.status, nextId |-> nid,
              err |-> a.err, c |-> None]
        ELSE IF a.c # None
        THEN [pool |-> a.pool, status |-> a.status, nextId |-> nid,
              err |-> NoErr, c |-> a.c]
        ELSE LET n == NewConnection(a.status, nid, newOut)
             IN  [pool |-> a.pool, status |-> n.status, nextId |-> n.nextId,
                  err |-> n.err, c |-> n.c]

\* variant: the capacity test is off by one (s > pool_size)
ReleaseResult_OffByOne(p, st, c, closeOut, resetOut) ==
    LET s == Len(p)
    IN  IF s > pool_size
        THEN [pool |-> p, status |-> [st EXCEPT ![c] = "closed"], closing |-> TRUE,
              err |-> IF closeOut = "ok" THEN NoErr ELSE Err("close", closeOut)]
        ELSE IF resetOut = "ok"
        THEN [pool |-> Append(p, c), status |-> st, closing |-> FALSE, err |-> NoErr]
        ELSE [pool |-> p, status |-> st, closing |-> FALSE,
              err |-> Err("reset", resetOut)]

\* variant: at capacity the connection is closed and pooled all the same
ReleaseResult_CloseAndPool(p, st, c, closeOut, resetOut) ==
    LET s == Len(p)
    IN  IF s >= pool_size
        THEN [pool |-> Append(p, c), status |-> [st EXCEPT ![c] = "closed"],
              closing |-> TRUE,
              err |-> IF closeOut = "ok" THEN NoErr ELSE Err("close", closeOut)]
        ELSE IF resetOut = "ok"
        THEN [pool |-> Append(p, c), status |-> st, closing |-> FALSE, err |-> NoErr]
        ELSE [pool |-> p, status |-> st, closing |-> FALSE,
              err |-> Err("reset", resetOut)]

\* teardown, lines 159-168, the critical section for a connection c found
\* on flask.g.  Neither close() nor reset() is guarded here.
ReleaseResult(p, st, c, closeOut, resetOut) ==
    LET s == Len(p)
    IN  IF s >= pool_size
        THEN [pool |-> p, status |-> [st EXCEPT ![c] = "closed"], closing |-> TRUE,
              err |-> IF closeOut = "ok" THEN NoErr ELSE Err("close", closeOut)]
        ELSE IF resetOut = "ok"
        THEN [pool |-> Append(p, c), status |-> st, closing |-> FALSE, err |-> NoErr]
        ELSE [pool |-> p, status |-> st, closing |-> FALSE,
              err |-> Err("reset", resetOut)]

----------------------------------------------------------------------------
\* the driver outcomes one run of _connect can meet, given the pool it finds:
\* reset() is called only on a popped connection, close() only after reset()
\* raised OperationalError, connect() only when no connection was kept.
\* _new_connection (lines 96-102) can raise any class: KeyError from the
\* configuration lookup, or whatever psycopg2.connect raises.
ResetOutcomes(p) == IF Len(p) > 0 THEN Outcome ELSE {"ok"}
CloseOutcomes(p, resetOut) ==
    IF Len(p) > 0 /\ resetOut = "OperationalError"
    THEN [1..Len(p) -> Outcome] ELSE {<<>>}
NewOutcomes(p, resetOut, closeOut) ==
    IF PopAndCheck(p, [x \in Conn |-> "open"], resetOut, closeOut).c = None
    THEN Outcome ELSE {"ok"}
NeedsNew(p, resetOut, closeOut) ==
    LET a == PopAndCheck(p, [x \in Conn |-> "open"], resetOut, closeOut)
    IN  a.err = NoErr /\ a.c = None

\* the outcomes of the close() calls one run of _connect really makes
\* (lines 74 and 80): none unless reset() raised OperationalError, and none
\* after the first close() that raises another class
ClosesMade(p, resetOut, closeOut) ==
    IF Len(p) > 0 /\ resetOut = "OperationalError"
    THEN LET k == FirstError(Len(p), closeOut)
         IN  {closeOut[i] : i \in {j \in 1..Len(p) : j <= k}}
    ELSE {}

\* what the latest operation was, what it started from and how it ended
Record(op, r, c, res, resetOut, closes, used) ==
    [op |-> op, req |-> r, conn |-> c, pool |-> pool, nextId |-> nextId,
     reset |-> resetOut, close |-> closes, ret |-> res.c, err |-> res.err,
     used |-> used]

Init ==
    /\ pool = <<>>
    /\ app_postgresql = None
    /\ g_postgresql = [r \in Req |-> None]
    /\ status = [c \in Conn |-> "unborn"]
    /\ nextId = 1
    /\ pc = [r \in Req |-> "ready"]
    /\ tmp = [r \in Req |-> None]
    /\ held = [r \in Req |-> None]
    /\ calls = [r \in Req |-> 0]
    /\ acquires = [r \in Req |-> 0]
    /\ tdCount = [r \in Req |-> 0]
    /\ last = [op |-> "init", req |-> 0, conn |-> None, pool |-> <<>>,
               nextId |-> 1, reset |-> "ok", close |-> {}, ret |-> None,
               err |-> NoErr,
               used |-> FALSE]
    /\ dirty = {}
    /\ inExec = {}
    /\ lock = None
    /\ lpc = [r \in Req |-> "idle"]
    /\ lc = [r \in Req |-> None]
    /\ li = [r \in Req |-> 0]

\* variant: a request that already ran _connect does not run it again
ConnectionTest_Sticky(r) ==
    /\ pc[r] = "ready"
    /\ tdCount[r] = 0
    /\ Total(calls) < MaxCalls
    /\ calls' = [calls EXCEPT ![r] = @ + 1]
    /\ pc' = [pc EXCEPT ![r] = IF app_postgresql = None /\ acquires[r] = 0
                               THEN "connect" ELSE "return"]
    /\ UNCHANGED <<pool, app_postgresql, g_postgresql, status, nextId, tmp, held,
                   acquires, tdCount, last>>
    /\ UNCHANGED <<dirty, inExec, lockVars>>

\* connection property, line 118: if not hasattr(self.app, '_postgresql')
ConnectionTest(r) ==
    /\ pc[r] = "ready"
    /\ tdCount[r] = 0
    /\ Total(calls) < MaxCalls
    /\ calls' = [calls EXCEPT ![r] = @ + 1]
    /\ pc' = [pc EXCEPT ![r] = IF app_postgresql = None THEN "connect" ELSE "return"]
    /\ UNCHANGED <<pool, app_postgresql, g_postgresql, status, nextId, tmp, held,
                   acquires, tdCount, last>>
    /\ UNCHANGED <<dirty, inExec, lockVars>>

\* one run of _connect() by request thread r
RunConnect(r, res, resetOut, closeOut) ==
    /\ pool' = res.pool
    /\ status' = res.status
    /\ nextId' = res.nextId
    /\ acquires' = [acquires EXCEPT ![r] = @ + 1]
    /\ last' = Record("connect", r, IF Len(pool) > 0 THEN Top(pool) ELSE None,
                      res, resetOut, ClosesMade(pool, resetOut, closeOut), FALSE)
    /\ dirty' = dirty \ {res.c}
    /\ UNCHANGED <<inExec, lockVars>>

\* connection property, line 119, right-hand side: self._connect().  An
\* exception leaves the property; inside __execute_sql it arrives in the try
\* block of line 82.
ConnectionConnect(r) ==
    /\ pc[r] = "connect"
    /\ \E resetOut \in ResetOutcomes(pool) :
       \E closeOut \in CloseOutcomes(pool, resetOut) :
       \E newOut \in NewOutcomes(pool, resetOut, closeOut) :
         LET res == ConnectResult(pool, status, nextId, resetOut, closeOut, newOut)
         IN  /\ NeedsNew(pool, resetOut, closeOut) => nextId <= MaxConns
             /\ RunConnect(r, res, resetOut, closeOut)
             /\ tmp' = [tmp EXCEPT ![r] = res.c]
             /\ pc' = [pc EXCEPT ![r] = IF res.err = NoErr THEN "store"
                                        ELSE IF r \in inExec THEN "except"
                                        ELSE "ready"]
    /\ UNCHANGED <<app_postgresql, g_postgresql, held, calls, tdCount>>

\* variant: the connection is kept on flask.g, where teardown looks for it
ConnectionStore_OnG(r) ==
    /\ pc[r] = "store"
    /\ g_postgresql' = [g_postgresql EXCEPT ![r] = tmp[r]]
    /\ tmp' = [tmp EXCEPT ![r] = None]
    /\ pc' = [pc EXCEPT ![r] = "return"]
    /\ UNCHANGED <<pool, app_postgresql, status, nextId, held, calls,
                   acquires, tdCount, last>>
    /\ UNCHANGED <<dirty, inExec, lockVars>>

\* connection property, line 119, the assignment self.app._postgresql = ...
ConnectionStore(r) ==
    /\ pc[r] = "store"
    /\ app_postgresql' = tmp[r]
    /\ tmp' = [tmp EXCEPT ![r] = None]
    /\ pc' = [pc EXCEPT ![r] = "return"]
    /\ UNCHANGED <<pool, g_postgresql, status, nextId, held, calls,
                   acquires, tdCount, last>>
    /\ UNCHANGED <<dirty, inExec, lockVars>>

\* connection property, line 120: return self.app._postgresql; inside
\* __execute_sql the statement follows on what was returned
ConnectionReturn(r) ==
    /\ pc[r] = "return"
    /\ held' = [held EXCEPT ![r] = app_postgresql]
    /\ pc' = [pc EXCEPT ![r] = IF r \in inExec THEN "stmt" ELSE "ready"]
    /\ UNCHANGED <<pool, app_postgresql, g_postgresql, status, nextId, tmp, calls,
                   acquires, tdCount, last>>
    /\ UNCHANGED <<dirty, inExec, lockVars>>

\* commit, lines 136-150: commits whatever connection the application
\* object carries, and nothing when it carries none.  commit() of the driver
\* is called with no handler around it (line 149): when it raises, the error
\* leaves commit and the transaction is left as it was.
Commit(r) ==
    /\ pc[r] = "ready"
    /\ tdCount[r] = 0
    /\ \E commitOut \in IF app_postgresql = None THEN {"ok"} ELSE Outcome :
         /\ last' = Record("commit", r, app_postgresql,
                           [c |-> None,
                            err |-> IF commitOut = "ok" THEN NoErr
                                    ELSE Err("commit", commitOut)],
                           "ok", {}, calls[r] > 0)
         /\ dirty' = IF commitOut = "ok" THEN dirty \ {app_postgresql} ELSE dirty
    /\ UNCHANGED <<pool, app_postgresql, g_postgresql, status, nextId, pc, tmp,
                   held, calls, acquires, tdCount, inExec, lockVars>>

\* teardown, lines 152-157: the connection is taken off flask.g before the
\* lock is asked for; with nothing on flask.g teardown is over.  It may be
\* called again on a context it has ended (by Flask's hook, line 55, or
\* directly) any number of times.
Teardown(r) ==
    /\ pc[r] = "ready"
    /\ lpc[r] = "idle"
    /\ tdCount' = [tdCount EXCEPT ![r] = 1]
    /\ IF g_postgresql[r] # None
       THEN /\ lc' = [lc EXCEPT ![r] = g_postgresql[r]]
            /\ g_postgresql' = [g_postgresql EXCEPT ![r] = None]
            /\ lpc' = [lpc EXCEPT ![r] = "t_lock"]
            /\ UNCHANGED last
       ELSE /\ last' = Record("teardown", r, None, [c |-> None, err |-> NoErr],
                              "ok", {}, FALSE)
            /\ UNCHANGED <<g_postgresql, lc, lpc>>
    /\ UNCHANGED <<pool, status, dirty, app_postgresql, nextId, pc, tmp, held,
                   calls, acquires, inExec, lock, li>>

\* teardown, lines 159-168, the section under self._lock as one step.
\* close() is called only at capacity and reset() only below it; the
\* outcome of the call not made is not recorded.
TeardownRelease(r) ==
    /\ lpc[r] = "t_lock"
    /\ lock = None
    /\ LET c == lc[r]
       IN  \E closeOut \in Outcome, resetOut \in Outcome :
             LET res == ReleaseResult(pool, status, c, closeOut, resetOut)
             IN  /\ pool' = res.pool
                 /\ status' = res.status
                 /\ dirty' = IF ~res.closing /\ res.err = NoErr
                             THEN dirty \ {c} ELSE dirty
                 /\ last' = Record("teardown", r, c, [c |-> None, err |-> res.err],
                                   IF res.closing THEN "ok" ELSE resetOut,
                                   IF res.closing THEN {closeOut} ELSE {},
                                   FALSE)
    /\ lpc' = [lpc EXCEPT ![r] = "idle"]
    /\ lc' = [lc EXCEPT ![r] = None]
    /\ UNCHANGED <<g_postgresql, app_postgresql, nextId, pc, tmp, held, calls,
                   acquires, tdCount, inExec, lock, li>>

\* A caller that uses the pool without the connection property: it runs
\* _connect() itself and keeps the result where teardown looks for it,
\* on flask.g._postgresql.  Nothing in PostgreSQL assigns that attribute.
DirectAcquire(r) ==
    /\ pc[r] = "ready"
    /\ tdCount[r] = 0
    /\ g_postgresql[r] = None
    /\ acquires[r] = 0
    /\ \E resetOut \in ResetOutcomes(pool) :
       \E closeOut \in CloseOutcomes(pool, resetOut) :
       \E newOut \in NewOutcomes(pool, resetOut, closeOut) :
         LET res == ConnectResult(pool, status, nextId, resetOut, closeOut, newOut)
         IN  /\ NeedsNew(pool, resetOut, closeOut) => nextId <= MaxConns
             /\ RunConnect(r, res, resetOut, closeOut)
             /\ g_postgresql' = [g_postgresql EXCEPT ![r] = res.c]
    /\ UNCHANGED <<app_postgresql, pc, tmp, held, calls, tdCount>>

\* DBStorageService.__execute_sql, lines 82-98, for a statement that ends
\* with stmtOut.  storage_service.py imports logging, Optional and
\* PostgreSQL only: when the statement raises, "except DatabaseError"
\* (line 94) looks up a name the module does not define and NameError
\* replaces the statement's error; lines 95-98 never run.  The rollback
\* they would call is StorageService.rollback (lines 29-30), which is
\* "pass" and is not overridden.
ExecuteResult(stmtOut) ==
    IF stmtOut = "ok"
    THEN [err |-> NoErr, rollback |-> FALSE]
    ELSE [err |-> Err("execute", "NameError"), rollback |-> FALSE]

\* __execute_sql, line 83: self._psql.cursor() begins with a use of the
\* connection property (line 134), whose steps are ConnectionConnect,
\* ConnectionStore and ConnectionReturn; this is its test at line 118.
ExecuteCall(r) ==
    /\ pc[r] = "ready"
    /\ tdCount[r] = 0
    /\ Total(calls) < MaxCalls
    /\ calls' = [calls EXCEPT ![r] = @ + 1]
    /\ inExec' = inExec \cup {r}
    /\ pc' = [pc EXCEPT ![r] = IF app_postgresql = None THEN "connect" ELSE "return"]
    /\ UNCHANGED <<pool, app_postgresql, g_postgresql, status, nextId, tmp, held,
                   acquires, tdCount, last, dirty, lockVars>>

\* __execute_sql, lines 83-93 and 94: the statement runs on a cursor of the
\* connection the property has just returned
Execute(r) ==
    /\ pc[r] = "stmt"
    /\ \E stmtOut \in {"ok", "DatabaseError"} :
         LET res == ExecuteResult(stmtOut)
         IN  /\ dirty' = IF res.rollback THEN dirty \ {held[r]}
                         ELSE dirty \cup {held[r]}
             /\ last' = [op |-> "execute", req |-> r, conn |-> held[r],
                         pool |-> pool, nextId |-> nextId, reset |-> "ok",
                         close |-> {}, ret |-> None, err |-> res.err,
                         used |-> TRUE, stmt |-> stmtOut,
                         rollback |-> res.rollback]
    /\ pc' = [pc EXCEPT ![r] = "ready"]
    /\ inExec' = inExec \ {r}
    /\ UNCHANGED <<pool, app_postgresql, g_postgresql, status, nextId, tmp,
                   held, calls, acquires, tdCount, lockVars>>

\* __execute_sql, line 94, when _connect raised inside self._psql.cursor():
\* no statement ran, and the except clause ends in NameError all the same
ExecuteRaise(r) ==
    /\ pc[r] = "except"
    /\ last' = [op |-> "execute", req |-> r, conn |-> None,
                pool |-> pool, nextId |-> nextId, reset |-> "ok",
                close |-> {}, ret |-> None,
                err |-> ExecuteResult("Error").err,
                used |-> TRUE, stmt |-> "none", rollback |-> FALSE]
    /\ pc' = [pc EXCEPT ![r] = "ready"]
    /\ inExec' = inExec \ {r}
    /\ UNCHANGED <<pool, app_postgresql, g_postgresql, status, nextId, tmp,
                   held, calls, acquires, tdCount, dirty, lockVars>>

Next ==
    \E r \in Req :
       \/ ConnectionTest(r)
       \/ ConnectionConnect(r)
       \/ ConnectionStore(r)
       \/ ConnectionReturn(r)
       \/ Commit(r)
       \/ Teardown(r)

\* the program as its public interface drives it.  TeardownRelease is not
\* among the steps: no state of these behaviours enables it (C19).
Spec == Init /\ [][Next]_vars

NextDirect ==
    \E r \in Req :
       \/ DirectAcquire(r)
       \/ Teardown(r)
       \/ TeardownRelease(r)

\* the pool driven through _connect and teardown themselves
SpecDirect == Init /\ [][NextDirect]_vars

NextHelper ==
    \E r \in Req :
       \/ ConnectionTest(r)
       \/ ConnectionConnect(r)
       \/ ConnectionStore(r)
       \/ ConnectionReturn(r)
       \/ ExecuteCall(r)
       \/ Execute(r)
       \/ ExecuteRaise(r)
       \/ Commit(r)
       \/ Teardown(r)

\* the public interface used by DBStorageService
SpecHelper == Init /\ [][NextHelper]_vars

\* The connection property in request contexts that start while the idle
\* list holds the connections earlier contexts released: k open, clean
\* connections, k from 0 to pool_size.
InitWarm ==
    \E k \in 0..pool_size :
       /\ pool = [i \in 1..k |-> i]
       /\ status = [c \in Conn |-> IF c <= k THEN "open" ELSE "unborn"]
       /\ nextId = k + 1
       /\ last = [op |-> "init", req |-> 0, conn |-> None, pool |-> <<>>,
                  nextId |-> k + 1, reset |-> "ok", close |-> {}, ret |-> None,
                  err |-> NoErr, used |-> FALSE]
       /\ app_postgresql = None
       /\ g_postgresql = [r \in Req |-> None]
       /\ pc = [r \in Req |-> "ready"]
       /\ tmp = [r \in Req |-> None]
       /\ held = [r \in Req |-> None]
       /\ calls = [r \in Req |-> 0]
       /\ acquires = [r \in Req |-> 0]
       /\ tdCount = [r \in Req |-> 0]
       /\ dirty = {}
       /\ inExec = {}
       /\ lock = None
       /\ lpc = [r \in Req |-> "idle"]
       /\ lc = [r \in Req |-> None]
       /\ li = [r \in Req |-> 0]

NextWarm ==
    \E r \in Req :
       \/ ConnectionTest(r)
       \/ ConnectionConnect(r)
       \/ ConnectionStore(r)
       \/ ConnectionReturn(r)

SpecWarm == InitWarm /\ [][NextWarm]_vars

----------------------------------------------------------------------------
\* _connect and teardown statement by statement, with self._lock explicit.
\* Threads call the two methods directly and keep the connection on flask.g.

\* inside "with self._lock", the lock's release at the end included
CSLocs == {"c_pop", "c_reset", "c_close", "c_loop", "c_clear", "c_new",
           "c_return", "c_raise",
           "t_len", "t_close", "t_reset", "t_append", "t_return", "t_raise"}
\* about to call the driver over the network: reset(), close(), connect()
IOLocs == {"c_reset", "c_close", "c_loop", "c_new", "t_close", "t_reset"}
\* blocked in self._lock.__enter__
WaitLocs == {"c_lock", "t_lock"}

otherVars == <<app_postgresql, pc, tmp, held, calls, dirty, inExec>>

\* a request's thread enters _connect, line 58; one call for each request
CallConnect(r) ==
    /\ lpc[r] = "idle"
    /\ g_postgresql[r] = None
    /\ acquires[r] = 0
    /\ acquires' = [acquires EXCEPT ![r] = 1]
    /\ lpc' = [lpc EXCEPT ![r] = "c_lock"]
    /\ UNCHANGED <<pool, status, nextId, g_postgresql, tdCount, last, lock, lc, li,
                   otherVars>>

\* teardown, lines 154-157
CallTeardown(r) ==
    /\ lpc[r] = "idle"
    /\ g_postgresql[r] # None
    /\ lc' = [lc EXCEPT ![r] = g_postgresql[r]]
    /\ g_postgresql' = [g_postgresql EXCEPT ![r] = None]
    /\ lpc' = [lpc EXCEPT ![r] = "t_lock"]
    /\ UNCHANGED <<pool, status, nextId, tdCount, acquires, last, lock, li,
                   otherVars>>

\* variant: the lock is taken without waiting for its holder
AcquireLock_NoWait(r) ==
    /\ lpc[r] \in WaitLocs
    /\ lock' = r
    /\ lpc' = [lpc EXCEPT ![r] = IF lpc[r] = "c_lock" THEN "c_pop" ELSE "t_len"]
    /\ UNCHANGED <<pool, status, nextId, g_postgresql, tdCount, acquires, last,
                   lc, li, otherVars>>

\* with self._lock, lines 61 and 159 (threading.RLock, line 39)
AcquireLock(r) ==
    /\ lpc[r] \in WaitLocs
    /\ lock \in {None, r}
    /\ lock' = r
    /\ lpc' = [lpc EXCEPT ![r] = IF lpc[r] = "c_lock" THEN "c_pop" ELSE "t_len"]
    /\ UNCHANGED <<pool, status, nextId, g_postgresql, tdCount, acquires, last,
                   lc, li, otherVars>>

\* _connect, lines 62-65
Pop(r) ==
    /\ lpc[r] = "c_pop"
    /\ IF Len(pool) > 0
       THEN /\ lc' = [lc EXCEPT ![r] = Top(pool)]
            /\ pool' = Front(pool)
            /\ lpc' = [lpc EXCEPT ![r] = "c_reset"]
       ELSE /\ lc' = [lc EXCEPT ![r] = None]
            /\ lpc' = [lpc EXCEPT ![r] = "c_new"]
            /\ UNCHANGED pool
    /\ UNCHANGED <<status, nextId, g_postgresql, tdCount, acquires, last, lock,
                   li, otherVars>>

\* _connect, lines 66-70 and 86-87: c.reset()
Reset(r) ==
    /\ lpc[r] = "c_reset"
    /\ \E resetOut \in Outcome :
         lpc' = [lpc EXCEPT ![r] = CASE resetOut = "ok" -> "c_return"
                                     [] resetOut = "OperationalError" -> "c_close"
                                     [] OTHER -> "c_raise"]
    /\ UNCHANGED <<pool, status, nextId, g_postgresql, tdCount, acquires, last,
                   lock, lc, li, otherVars>>

\* _connect, lines 73-76: c.close() on the popped connection
ClosePopped(r) ==
    /\ lpc[r] = "c_close"
    /\ status' = [status EXCEPT ![lc[r]] = "closed"]
    /\ \E closeOut \in Outcome :
         lpc' = [lpc EXCEPT ![r] = IF closeOut = "Error" THEN "c_raise" ELSE "c_loop"]
    /\ li' = [li EXCEPT ![r] = 1]
    /\ UNCHANGED <<pool, nextId, g_postgresql, tdCount, acquires, last, lock, lc,
                   otherVars>>

\* _connect, lines 78-82: one turn of "for c in self._pool", or its end
CloseLoop(r) ==
    /\ lpc[r] = "c_loop"
    /\ IF li[r] <= Len(pool)
       THEN /\ lc' = [lc EXCEPT ![r] = pool[li[r]]]
            /\ status' = [status EXCEPT ![pool[li[r]]] = "closed"]
            /\ li' = [li EXCEPT ![r] = @ + 1]
            /\ \E closeOut \in Outcome :
                 lpc' = [lpc EXCEPT ![r] = IF closeOut = "Error" THEN "c_raise"
                                           ELSE "c_loop"]
       ELSE /\ lpc' = [lpc EXCEPT ![r] = "c_clear"]
            /\ UNCHANGED <<lc, status, li>>
    /\ UNCHANGED <<pool, nextId, g_postgresql, tdCount, acquires, last, lock,
                   otherVars>>

\* _connect, lines 84-85
Clear(r) ==
    /\ lpc[r] = "c_clear"
    /\ pool' = <<>>
    /\ lc' = [lc EXCEPT ![r] = None]
    /\ lpc' = [lpc EXCEPT ![r] = "c_new"]
    /\ UNCHANGED <<status, nextId, g_postgresql, tdCount, acquires, last, lock,
                   li, otherVars>>

\* _connect, lines 89-90
New(r) ==
    /\ lpc[r] = "c_new"
    /\ nextId <= MaxConns
    /\ \E newOut \in Outcome :
         LET n == NewConnection(status, nextId, newOut)
         IN  /\ status' = n.status
             /\ nextId' = n.nextId
             /\ lc' = [lc EXCEPT ![r] = n.c]
             /\ lpc' = [lpc EXCEPT ![r] = IF n.err = NoErr THEN "c_return"
                                           ELSE "c_raise"]
    /\ UNCHANGED <<pool, g_postgresql, tdCount, acquires, last, lock, li, otherVars>>

\* teardown, lines 160-161
TdLen(r) ==
    /\ lpc[r] = "t_len"
    /\ li' = [li EXCEPT ![r] = Len(pool)]
    /\ lpc' = [lpc EXCEPT ![r] = IF Len(pool) >= pool_size THEN "t_close"
                                 ELSE "t_reset"]
    /\ UNCHANGED <<pool, status, nextId, g_postgresql, tdCount, acquires, last,
                   lock, lc, otherVars>>

\* teardown, line 163
TdClose(r) ==
    /\ lpc[r] = "t_close"
    /\ status' = [status EXCEPT ![lc[r]] = "closed"]
    /\ \E closeOut \in Outcome :
         lpc' = [lpc EXCEPT ![r] = IF closeOut = "ok" THEN "t_return" ELSE "t_raise"]
    /\ UNCHANGED <<pool, nextId, g_postgresql, tdCount, acquires, last, lock, lc,
                   li, otherVars>>

\* teardown, line 167
TdReset(r) ==
    /\ lpc[r] = "t_reset"
    /\ \E resetOut \in Outcome :
         lpc' = [lpc EXCEPT ![r] = IF resetOut = "ok" THEN "t_append" ELSE "t_raise"]
    /\ UNCHANGED <<pool, status, nextId, g_postgresql, tdCount, acquires, last,
                   lock, lc, li, otherVars>>

\* teardown, line 168
TdAppend(r) ==
    /\ lpc[r] = "t_append"
    /\ pool' = Append(pool, lc[r])
    /\ lpc' = [lpc EXCEPT ![r] = "t_return"]
    /\ UNCHANGED <<status, nextId, g_postgresql, tdCount, acquires, last, lock,
                   lc, li, otherVars>>

\* variant: the lock is released by hand on the normal path only
Unlock_NotOnRaise(r) ==
    /\ lpc[r] \in {"c_return", "c_raise", "t_return", "t_raise"}
    /\ lock' = IF lpc[r] \in {"c_raise", "t_raise"} THEN lock ELSE None
    /\ g_postgresql' = [g_postgresql EXCEPT ![r] =
                          IF lpc[r] = "c_return" THEN lc[r] ELSE @]
    /\ lpc' = [lpc EXCEPT ![r] = "idle"]
    /\ lc' = [lc EXCEPT ![r] = None]
    /\ li' = [li EXCEPT ![r] = 0]
    /\ UNCHANGED <<pool, status, nextId, tdCount, acquires, last, otherVars>>

\* the end of "with self._lock" (lines 61-92 and 159-168), reached by
\* return and by an exception alike; the caller of _connect keeps what it
\* returned on flask.g
Unlock(r) ==
    /\ lpc[r] \in {"c_return", "c_raise", "t_return", "t_raise"}
    /\ lock' = None
    /\ g_postgresql' = [g_postgresql EXCEPT ![r] =
                          IF lpc[r] = "c_return" THEN lc[r] ELSE @]
    /\ lpc' = [lpc EXCEPT ![r] = "idle"]
    /\ lc' = [lc EXCEPT ![r] = None]
    /\ li' = [li EXCEPT ![r] = 0]
    /\ UNCHANGED <<pool, status, nextId, tdCount, acquires, last, otherVars>>

\* the steps of a thread that is inside _connect or teardown
Running(r) ==
    \/ Pop(r) \/ Reset(r) \/ ClosePopped(r) \/ CloseLoop(r) \/ Clear(r) \/ New(r)
    \/ TdLen(r) \/ TdClose(r) \/ TdReset(r) \/ TdAppend(r) \/ Unlock(r)

NextLock ==
    \E r \in Req :
       \/ CallConnect(r)
       \/ CallTeardown(r)
       \/ AcquireLock(r)
       \/ Pop(r)
       \/ Reset(r)
       \/ ClosePopped(r)
       \/ CloseLoop(r)
       \/ Clear(r)
       \/ New(r)
       \/ TdLen(r)
       \/ TdClose(r)
       \/ TdReset(r)
       \/ TdAppend(r)
       \/ Unlock(r)

SpecLock == Init /\ [][NextLock]_vars

\* fair scheduling: a thread that can run does run, driver calls return, and
\* a thread that can take the lock again and again does take it
SpecLockFair ==
    /\ SpecLock
    /\ \A r \in Req : WF_vars(Running(r)) /\ SF_vars(AcquireLock(r))

----------------------------------------------------------------------------
\* Properties

\* a request context that has been torn down
Finished(r) == tdCount[r] >= 1
\* the latest operation was a teardown that found a connection on flask.g
Released == last.op = "teardown" /\ last.conn # None
\* the latest operation was a _connect whose popped connection failed
\* reset() with OperationalError
Invalidated == last.op = "connect" /\ last.conn # None /\ last.reset = "OperationalError"
\* this step is a run of _connect by r
ConnectStep(r) == acquires'[r] = acquires[r] + 1
\* this step is the locked section of a teardown by r
ReleaseStep(r) == lpc[r] = "t_lock" /\ lpc'[r] = "idle"
\* this step is the first call of teardown on r's context
FirstTeardown(r) == tdCount[r] = 0 /\ tdCount'[r] = 1
\* this step is a call of teardown on r's context after the first: a step
\* of Teardown(r) itself, taken on a context it has already ended.  Every
\* step of another request, and every other operation of r, changes pc,
\* lpc, tdCount or the operation recorded in last, so none of them is one.
LaterTeardown(r) == tdCount[r] = 1 /\ Teardown(r)

\* C1: under every interleaving of _connect and teardown calls the idle
\* list never holds more than pool_size connections.
C1_PoolBounded == Len(pool) <= pool_size

\* C1 witness: a teardown found the idle list at pool_size and left it there.
C1_Witness == Released /\ Len(last.pool) = pool_size /\ Len(pool) = pool_size

\* C2: a connection a request obtained from the connection property is,
\* once that request's teardown has run, in the idle list or closed.
C2_NoLeakAfterTeardown ==
    \A r \in Req :
       (Finished(r) /\ held[r] # None) =>
          (held[r] \in Range(pool) \/ status[held[r]] = "closed")

\* C3: two request contexts that are both running never hold the same
\* connection, and a connection a running request holds is not in the idle
\* list.
C3_NeverShared ==
    \A r1 \in Req :
       (~Finished(r1) /\ held[r1] # None) =>
          /\ held[r1] \notin Range(pool)
          /\ \A r2 \in Req \ {r1} : ~Finished(r2) => held[r2] # held[r1]

\* C4: once the connection property has returned a connection to a request,
\* every later use in that request returns the same connection and runs
\* _connect no more, whatever other requests do meanwhile.
C4_SameConnection ==
    [][\A r \in Req :
          held[r] # None => (held'[r] = held[r] /\ acquires'[r] = acquires[r])]_vars

\* C5: for a request that was handed a connection, the first teardown puts
\* that connection in the idle list or closes it, and a second teardown
\* changes neither the idle list nor any connection.
C5_TeardownTwice ==
    [][\A r \in Req :
          held[r] # None =>
             /\ FirstTeardown(r) =>
                   (held[r] \in Range(pool') \/ status'[held[r]] = "closed")
             /\ LaterTeardown(r) => (pool' = pool /\ status' = status)]_vars

\* C6: commit in a request that never used the connection property issues
\* no commit on any connection, whatever earlier requests did.
C6_CommitUnboundNoop ==
    (last.op = "commit" /\ ~last.used) => last.conn = None

\* C7: pool_size is 2; after three requests each obtained a connection from
\* the connection property and were torn down, the idle list holds exactly
\* 2 connections and exactly one connection is closed.
C7_ThreeRequests ==
    (\A r \in 1..3 : held[r] # None /\ Finished(r)) =>
       (Len(pool) = 2 /\ Cardinality({c \in Conn : status[c] = "closed"}) = 1)

\* C8: when the popped connection fails reset() with OperationalError and
\* _connect returns, close() has been called on it and on every connection
\* of the prior idle list, the idle list is empty, and the connection
\* returned did not exist before this call; a _connect that follows also
\* returns a connection that did not exist before.
C8_State ==
    (Invalidated /\ last.err = NoErr) =>
       /\ \A x \in Range(last.pool) : status[x] = "closed"
       /\ pool = <<>>
       /\ last.ret = last.nextId
       /\ last.ret \notin Range(last.pool)
       /\ status[last.ret] = "open"
C8_Following ==
    \A r \in Req :
       (Invalidated /\ last.err = NoErr /\ ConnectStep(r) /\ last'.err = NoErr) =>
          (last'.ret = nextId /\ status[last'.ret] = "unborn" /\ pool' = <<>>)
C8_InvalidationHeals == []C8_State /\ [][C8_Following]_vars

\* C8 witness: _connect returned after it invalidated an idle list of two.
C8_Witness == Invalidated /\ last.err = NoErr /\ Len(last.pool) = 2

\* C9: teardown of a connection found on flask.g while the idle list holds
\* pool_size connections calls close() on it, does not pool it, and leaves
\* the idle list as it was.
C9_ReleaseAtCapacity ==
    (Released /\ Len(last.pool) >= pool_size) =>
       /\ status[last.conn] = "closed"
       /\ last.conn \notin Range(pool)
       /\ pool = last.pool

\* C9 witness: a teardown at capacity whose close() went through.
C9_Witness ==
    Released /\ Len(last.pool) = pool_size /\ last.close = {"ok"}

\* C10 as stated: no failure of close(), of any class, reaches the caller of
\* _connect or of teardown.
C10_CloseNeverPropagates == last.err.src # "close"

\* What the code does where C10 fails: only in _connect's invalidation,
\* and only for OperationalError, is a failing close() swallowed (list
\* emptied, every prior member closed, a new connection attempted); a
\* close() raising any other class there reaches the caller of _connect,
\* and every failure of close() in teardown at capacity, OperationalError
\* included, reaches the caller of teardown (line 163 has no handler).
C10_CloseSwallowedOnlyOperational ==
    /\ (Invalidated /\ "Error" \notin last.close) =>
          /\ last.err.src # "close"
          /\ pool = <<>>
          /\ \A x \in Range(last.pool) : status[x] = "closed"
          /\ (last.err = NoErr => last.ret = last.nextId)
    /\ (Invalidated /\ "Error" \in last.close) =>
          last.err = Err("close", "Error")
    /\ (Released /\ last.close \cap {"OperationalError", "Error"} # {}) =>
          (last.err.src = "close" /\ last.err.class \in last.close)

\* the one case in which C10 holds: _connect returned a connection
\* although a close() in its invalidation had raised OperationalError.
C10_SwallowedInConnect ==
    Invalidated /\ "OperationalError" \in last.close /\ last.err = NoErr

\* the case the spec names and the code fails: teardown at capacity called
\* close() on a dead connection, close() raised OperationalError, and the
\* error left teardown.
C10_DeadCloseCrashesTeardown ==
    /\ Released /\ Len(last.pool) = pool_size
    /\ last.close = {"OperationalError"}
    /\ last.err = Err("close", "OperationalError")

\* C11: when reset() of the popped connection raises a class other than
\* OperationalError, _connect raises that error; close() is called on no
\* connection, the connections left in the idle list stay there in the same
\* order, and no connection is created.
C11_Step ==
    \A r \in Req :
       (ConnectStep(r) /\ Len(pool) > 0 /\ last'.reset = "Error") =>
          /\ last'.err = Err("reset", "Error")
          /\ last'.ret = None
          /\ last'.close = {}
          /\ status' = status
          /\ pool' = SubSeq(pool, 1, Len(pool) - 1)
          /\ nextId' = nextId
C11_UnexpectedResetPropagates == [][C11_Step]_vars

\* C11 witness: reset() raised another class while a second connection
\* was idle, and that one is still idle and open.
C11_Witness ==
    /\ last.op = "connect" /\ last.reset = "Error" /\ Len(last.pool) = 2
    /\ pool = <<last.pool[1]>> /\ status[last.pool[1]] = "open"

\* C14: _connect on an empty idle list never waits: it creates a connection
\* that did not exist before (or raises the error of connect()), whatever
\* other requests hold; so more than pool_size connections can be open and
\* held by requests at once.
C14_Step ==
    \A r \in Req :
       (ConnectStep(r) /\ pool = <<>>) =>
          /\ pool' = <<>>
          /\ last'.err # NoErr => (last'.err.src = "connect" /\ nextId' = nextId)
          /\ last'.err = NoErr =>
                /\ last'.ret = nextId
                /\ status[nextId] = "unborn" /\ status'[nextId] = "open"
                /\ nextId' = nextId + 1
C14_NeverWaits ==
    \A r \in Req :
       (tdCount[r] = 0 /\ g_postgresql[r] = None /\ acquires[r] = 0
          /\ nextId <= MaxConns) => ENABLED DirectAcquire(r)
C14_EmptyPoolCreates == []C14_NeverWaits /\ [][C14_Step]_vars

\* C14 witness: more than pool_size distinct open connections are held by
\* requests at the same time.
C14_Witness ==
    LET inUse == {g_postgresql[r] : r \in Req} \ {None}
    IN  Cardinality(inUse) > pool_size /\ \A c \in inUse : status[c] = "open"

\* C15: teardown pushes at the end of the idle list and _connect takes from
\* the end; when reset() of the taken connection succeeds, that connection
\* is returned, none is created, and the others stay in place in order.
C15_Step ==
    \A r \in Req :
       /\ (ConnectStep(r) /\ Len(pool) > 0 /\ last'.reset = "ok") =>
             /\ last'.err = NoErr
             /\ last'.ret = pool[Len(pool)]
             /\ pool' = SubSeq(pool, 1, Len(pool) - 1)
             /\ nextId' = nextId
             /\ status' = status
       /\ (ReleaseStep(r) /\ pool' # pool) =>
             pool' = pool \o <<lc[r]>>
C15_Lifo == [][C15_Step]_vars

\* C15 witness: of two idle connections the one pushed last was returned
\* and the one pushed first is still idle.
C15_Witness ==
    /\ last.op = "connect" /\ last.reset = "ok" /\ last.err = NoErr
    /\ Len(last.pool) = 2 /\ last.ret = last.pool[2] /\ pool = <<last.pool[1]>>

\* C19: through connection, commit and teardown no request context ever
\* carries a connection on flask.g, so teardown never finds one to release
\* and the idle list is empty in every reachable state.
C19_PoolAlwaysEmpty ==
    /\ pool = <<>>
    /\ \A r \in Req : g_postgresql[r] = None /\ ~ENABLED TeardownRelease(r)
    /\ last.op = "teardown" => last.conn = None

\* C19 witness: a request that was handed a connection has been torn down.
C19_Witness ==
    /\ last.op = "teardown" /\ held[last.req] # None
    /\ app_postgresql = held[last.req] /\ status[held[last.req]] = "open"

\* C12: when a statement run by the helper fails with DatabaseError, a
\* rollback is issued on the connection before the error reaches the
\* caller, and the caller sees an error of class DatabaseError.
C12_RollbackAndSameClass ==
    (last.op = "execute" /\ last.stmt = "DatabaseError") =>
       (last.rollback /\ last.err.class = "DatabaseError")

\* C16: every connection in the idle list is open (close() was never called
\* on it) and has no transaction pending.  Statements run on the connection
\* of the property (storage_service.py line 83), which teardown never
\* sees, so it is the first half that the pool's own steps decide.
C16_IdleCleanAndOpen ==
    \A i \in 1..Len(pool) : status[pool[i]] = "open" /\ pool[i] \notin dirty

\* C20: when creating a connection fails inside _connect, the connection
\* property raises that error and caches nothing; the idle list is empty
\* (as it was, or emptied by the invalidation that came before, every member
\* closed); and the request's next use of the property, finding nothing
\* cached, runs _connect again.
C20_Step ==
    \A r \in Req :
       /\ (pc[r] = "connect" /\ ConnectStep(r) /\ last'.err.src = "connect") =>
             /\ pc'[r] = "ready"
             /\ tmp'[r] = None
             /\ app_postgresql' = app_postgresql
             /\ held' = held
             /\ nextId' = nextId
             /\ pool' = <<>>
             /\ pool # <<>> => /\ last'.reset = "OperationalError"
                               /\ \A x \in Range(pool) : status'[x] = "closed"
       /\ (last.op = "connect" /\ last.req = r /\ last.err.src = "connect"
             /\ app_postgresql = None /\ calls'[r] = calls[r] + 1) =>
             pc'[r] = "connect"
C20_CreateFailureNotCached == [][C20_Step]_vars

\* C20 witness: a request whose first _connect failed at creation, after an
\* invalidation, is running _connect a second time.
C20_Witness ==
    /\ last.op = "connect" /\ last.err.src = "connect"
    /\ last.reset = "OperationalError" /\ Len(last.pool) >= 1
    /\ pc[last.req] = "connect" /\ acquires[last.req] = 1
    /\ app_postgresql = None /\ pool = <<>>

\* a connection a thread has taken out of the idle list, or not yet put in
Carried(r) ==
    IF lpc[r] \in {"c_reset", "c_close", "c_return", "t_lock", "t_len", "t_close",
                   "t_reset", "t_append"}
    THEN {lc[r]} \ {None} ELSE {}
Has(r) == Carried(r) \cup ({g_postgresql[r]} \ {None})

\* C13 as stated: no thread is at a network call (reset, connect, close)
\* while it holds the pool lock.
C13_NoIOUnderLock == \A r \in Req : lpc[r] \in IOLocs => lock # r

\* what the code does instead: every network call of _connect and of
\* teardown's release is made with the pool lock held, and while one thread
\* is at such a call no other thread is inside either section.
IOUnderLock ==
    \A r \in Req :
       lpc[r] \in IOLocs =>
          (lock = r /\ \A q \in Req \ {r} : lpc[q] \notin CSLocs)

\* a slow connect blocking a release: one thread is creating a connection
\* with the lock held while another waits for the lock in teardown.
SlowConnectBlocks ==
    \E r, q \in Req : lpc[r] = "c_new" /\ lock = r /\ lpc[q] = "t_lock"

\* C17: membership changes of the idle list exclude each other: at most one
\* thread is inside a critical section; no connection is twice in the list;
\* no connection is had by two threads, or by a thread and the list; the
\* length teardown read is still the length when it appends; and what
\* _connect clears is what it closed.
C17_Atomic ==
    /\ \A r, q \in Req : (r # q /\ lpc[r] \in CSLocs) => lpc[q] \notin CSLocs
    /\ \A i, j \in 1..Len(pool) : i # j => pool[i] # pool[j]
    /\ \A r \in Req :
          /\ Has(r) \cap Range(pool) = {}
          /\ \A q \in Req \ {r} : Has(r) \cap Has(q) = {}
          /\ lpc[r] \in {"t_reset", "t_append"} =>
                (li[r] = Len(pool) /\ Len(pool) < pool_size)
          /\ lpc[r] = "c_clear" => \A x \in Range(pool) : status[x] = "closed"

\* C17 witness: a teardown is about to append while a _connect that will
\* pop waits for the lock.
C17_Witness ==
    \E r, q \in Req :
       lpc[r] = "t_append" /\ lpc[q] = "c_lock" /\ Len(pool) = 1

\* C18: the lock is never held by a thread that is outside its critical
\* section, whichever way it left; and under fair scheduling every thread
\* that waits for the lock gets it.
C18_HolderInside ==
    \A r \in Req : lock = r => lpc[r] \in CSLocs
C18_LockReleased ==
    /\ []C18_HolderInside
    /\ \A r \in Req : (lpc[r] \in WaitLocs) ~> (lock = r)

\* C18 witness: a connection is open, yet neither idle nor had by any
\* thread, which only an exception out of a critical section leaves behind
\* (reset raised at line 68 or 167); the thread that raised has left, and
\* another thread is inside a critical section with the lock.
C18_Witness ==
    /\ \E c \in Conn :
          /\ status[c] = "open"
          /\ c \notin Range(pool)
          /\ \A r \in Req : c \notin Has(r)
    /\ \A r \in Req : lpc[r] \notin {"c_raise", "t_raise"}
    /\ \E q \in Req : lock = q /\ lpc[q] \in CSLocs
====
